---- MODULE Spec2Model ----
(***************************************************************************)
(* Pdf-Fill: the template editor session (src/components/TemplateEditor.tsx,*)
(* with the resize gesture of its desktop variant, src/unnamed/part_001)   *)
(* and the document generator (src/services/pdfService.ts).                *)
(*                                                                         *)
(* Conventions.  An optional attribute (x?: number) is a sequence: <<>> is *)
(* undefined and <<v>> is the value v.  A field id is a pair: <<"acro", n>>*)
(* is the name of the n-th form field of the document, <<"custom", t>> is  *)
(* the string `custom_${t}`; the null selection is <<>>.  A text value is a*)
(* sequence of one-character strings.  React state read by a handler is    *)
(* the state of the render that created the handler: the window listeners  *)
(* of a gesture keep the template and scale of the render of pointer-down. *)
(***************************************************************************)
EXTENDS Integers, Sequences, FiniteSets, TLC

VARIABLES
    template,        \* useState<Template>: the in-memory template
    db,              \* the record db.templates[templateId]
    pending,         \* db.templates.update calls issued and not yet applied
    selectedFieldId, \* useState<string | null>
    showProperties,  \* useState(false): the properties sheet
    currentPage,     \* useState(1)
    numPages,        \* useState(0), pdf.numPages once the document is loaded
    scale,           \* useState(1.0), a rational [n, d]
    gesture,         \* the closure of the window listeners of a gesture
    now,             \* the last value Date.now() returned
    steps,           \* number of handler invocations of the session
    lastOp,          \* the handler that ran last, and the field it was about
    profile,         \* the Profile handed to generateFilledPDF
    gen,             \* the run of generateFilledPDF
    containerWidth,  \* containerRef.current.clientWidth
    templates,       \* db.templates as TemplateList sees it: the records of
                     \* the table, the one open in the editor (db) apart
    alerts,          \* the alert() dialogs TemplateList has shown
    canvas,          \* canvasRef.current: the page drawn on it and the zoom
                     \* factor it was drawn with
    renders,         \* the renderPage calls that have not completed
    calc             \* a computation of the coordinate transform in numbers

vars == <<template, db, pending, selectedFieldId, showProperties, currentPage,
          numPages, scale, gesture, now, steps, lastOp, profile, gen,
          containerWidth, templates, alerts, canvas, renders, calc>>

listVars == <<templates, alerts>>

renderVars == <<canvas, renders>>

editorVars == <<template, db, pending, selectedFieldId, showProperties,
                currentPage, numPages, scale, gesture, now, steps, lastOp,
                containerWidth, listVars, renderVars, calc>>

(***************************************************************************)
(* Bounds of the model.                                                    *)
(***************************************************************************)
MaxSteps == 4

\* clientX/clientY of the pointer events: from one to the other the pointer
\* travels further than the default box is wide and high
PointerPos == {<<100, 100>>, <<300, 130>>}

\* e.target.value of the Field Name input
Names == {"New Field", "Name"}

\* the options of the mapping select; "" is "-- Manual Entry (Blank) --"
ProfileKeys == {"Full Name", "Date"}

(***************************************************************************)
(* Optional values and small helpers.                                      *)
(***************************************************************************)
None == <<>>

Some(v) == <<v>>

\* a || b for an optional number: b when a is undefined or 0
OrElse(o, dflt) == IF o = None \/ o[1] = 0 THEN dflt ELSE o[1]

Max(a, b) == IF a >= b THEN a ELSE b

\* { ...f, ...updates }
Spread(f, updates) ==
    [k \in DOMAIN f |-> IF k \in DOMAIN updates THEN updates[k] ELSE f[k]]

FieldIds(t) == {t.fields[i].id : i \in DOMAIN t.fields}

(***************************************************************************)
(* The documents.  pdfData is what PDFDocument.load makes of the bytes: the *)
(* heights of the pages in points and the form's fields by name; a        *)
(* checkbox has no setText.  widths holds the widths of the pages in       *)
(* points, page.getViewport({ scale: 1 }).width of the renderer.           *)
(***************************************************************************)
AcroText == [name |-> <<"acro", 1>>, kind |-> "text"]

AcroCheck == [name |-> <<"acro", 2>>, kind |-> "checkbox"]

PlainPdf ==
    [valid |-> TRUE, pages |-> <<800>>, widths |-> <<600>>, acroFields |-> <<>>]

TwoPagePdf ==
    [valid |-> TRUE, pages |-> <<800, 800>>, widths |-> <<600, 600>>,
     acroFields |-> <<>>]

FormPdf ==
    [valid |-> TRUE, pages |-> <<800, 600>>, widths |-> <<600, 600>>,
     acroFields |-> <<AcroText, AcroCheck>>]

BrokenPdf ==
    [valid |-> FALSE, pages |-> <<>>, widths |-> <<>>, acroFields |-> <<>>]

TextFormPdf ==
    [valid |-> TRUE, pages |-> <<800>>, widths |-> <<600>>,
     acroFields |-> <<AcroText>>]

\* the uploads an editor session starts from
EditorPdfs == {TwoPagePdf, TextFormPdf}

(***************************************************************************)
(* pdfService.ts: analyzePDF (createdAt, a timestamp, is left out).        *)
(***************************************************************************)
acroTemplateFieldManual(f) ==
    [id |-> f.name, name |-> f.name, type |-> "TEXT", isManual |-> TRUE,
     pageIndex |-> 0, x |-> None, y |-> None, width |-> None,
     height |-> None, fontSize |-> None]

acroTemplateField(f) ==
    [id |-> f.name, name |-> f.name, type |-> "TEXT", isManual |-> FALSE,
     pageIndex |-> 0, x |-> None, y |-> None, width |-> None,
     height |-> None, fontSize |-> None]

analyzePDF(pdf, fileName) ==
    [name |-> fileName, pdfData |-> pdf,
     fields |-> [i \in DOMAIN pdf.acroFields |->
                    acroTemplateField(pdf.acroFields[i])],
     mappings |-> <<>>]

(***************************************************************************)
(* TemplateEditor.tsx: the handlers as functions of the state they read.   *)
(* A handler's result is the template it hands to setTemplate and the      *)
(* db.templates.update calls it issues, in order.                          *)
(***************************************************************************)
DefaultX == 50

DefaultY == 50

DefaultWidth == 150

DefaultHeight == 30

DefaultFontSize == 12

MinWidth == 20

MinHeight == 10

\* db.templates.update(id, changes): the keys of changes replace the record's
dbUpdate(changes) == [changes |-> changes]

dbApply(rec, w) == Spread(rec, w.changes)

customId(ms) == <<"custom", ms>>

newManualFieldOnFirstPage(ms, page) ==
    [id |-> customId(ms), name |-> "New Field", type |-> "TEXT",
     isManual |-> TRUE, pageIndex |-> 0,
     x |-> Some(DefaultX), y |-> Some(DefaultY),
     width |-> Some(DefaultWidth), height |-> Some(DefaultHeight),
     fontSize |-> Some(DefaultFontSize)]

newManualFieldOnNextPage(ms, page) ==
    [id |-> customId(ms), name |-> "New Field", type |-> "TEXT",
     isManual |-> TRUE, pageIndex |-> page,
     x |-> Some(DefaultX), y |-> Some(DefaultY),
     width |-> Some(DefaultWidth), height |-> Some(DefaultHeight),
     fontSize |-> Some(DefaultFontSize)]

newManualField(ms, page) ==
    [id |-> customId(ms), name |-> "New Field", type |-> "TEXT",
     isManual |-> TRUE, pageIndex |-> page - 1,
     x |-> Some(DefaultX), y |-> Some(DefaultY),
     width |-> Some(DefaultWidth), height |-> Some(DefaultHeight),
     fontSize |-> Some(DefaultFontSize)]

addManualField(t, ms, page) ==
    LET newTemplate == [t EXCEPT !.fields = Append(@, newManualField(ms, page))]
    IN  [template |-> newTemplate, writes |-> <<dbUpdate(newTemplate)>>]

updateField(t, id, updates) ==
    [t EXCEPT !.fields =
        [i \in DOMAIN @ |-> IF @[i].id = id THEN Spread(@[i], updates) ELSE @[i]]]

persistField(t) == dbUpdate([fields |-> t.fields])

deleteFieldKeepingMappings(t, id) ==
    LET updated ==
            [t EXCEPT !.fields = SelectSeq(@, LAMBDA f : f.id /= id)]
    IN  [template |-> updated, writes |-> <<dbUpdate(updated)>>]

deleteFieldClearingBytes(t, id) ==
    LET updated ==
            [t EXCEPT
                !.pdfData = BrokenPdf,
                !.fields = SelectSeq(@, LAMBDA f : f.id /= id),
                !.mappings = SelectSeq(@, LAMBDA m : m.templateFieldId /= id)]
    IN  [template |-> updated, writes |-> <<dbUpdate(updated)>>]

deleteField(t, id) ==
    LET updated ==
            [t EXCEPT
                !.fields = SelectSeq(@, LAMBDA f : f.id /= id),
                !.mappings = SelectSeq(@, LAMBDA m : m.templateFieldId /= id)]
    IN  [template |-> updated, writes |-> <<dbUpdate(updated)>>]

\* Array.findIndex, 1-based; 0 is the code's -1
findIndex(mappings, fieldId) ==
    IF \E i \in DOMAIN mappings : mappings[i].templateFieldId = fieldId
    THEN CHOOSE i \in DOMAIN mappings :
            /\ mappings[i].templateFieldId = fieldId
            /\ \A j \in 1..(i - 1) : mappings[j].templateFieldId /= fieldId
    ELSE 0

\* Array.splice(i, 1)
splice(s, i) == [j \in 1..(Len(s) - 1) |-> IF j < i THEN s[j] ELSE s[j + 1]]

newMapping(fieldId, profileKey) ==
    [templateFieldId |-> fieldId, profileKey |-> profileKey,
     transformation |-> "undefined"]

saveMappingAlwaysPushing(t, fieldId, profileKey) ==
    LET existingIndex == findIndex(t.mappings, fieldId)
        newMappings ==
            IF profileKey = ""
            THEN IF existingIndex > 0 THEN splice(t.mappings, existingIndex)
                 ELSE t.mappings
            ELSE Append(t.mappings, newMapping(fieldId, profileKey))
        updated == [t EXCEPT !.mappings = newMappings]
    IN  [template |-> updated, writes |-> <<dbUpdate(updated)>>]

saveMappingStoringEmptyKey(t, fieldId, profileKey) ==
    LET existingIndex == findIndex(t.mappings, fieldId)
        newMappings ==
            IF existingIndex > 0
            THEN [t.mappings EXCEPT ![existingIndex].profileKey = profileKey]
            ELSE Append(t.mappings, newMapping(fieldId, profileKey))
        updated == [t EXCEPT !.mappings = newMappings]
    IN  [template |-> updated, writes |-> <<dbUpdate(updated)>>]

saveMapping(t, fieldId, profileKey) ==
    LET existingIndex == findIndex(t.mappings, fieldId)
        newMappings ==
            IF profileKey = ""
            THEN IF existingIndex > 0 THEN splice(t.mappings, existingIndex)
                 ELSE t.mappings
            ELSE IF existingIndex > 0
                 THEN [t.mappings EXCEPT ![existingIndex].profileKey = profileKey]
                 ELSE Append(t.mappings, newMapping(fieldId, profileKey))
        updated == [t EXCEPT !.mappings = newMappings]
    IN  [template |-> updated, writes |-> <<dbUpdate(updated)>>]

(***************************************************************************)
(* Coordinate transform: viewport pixels at zoom s to document points and  *)
(* back.  The pointer positions and zoom factors of the model are chosen so*)
(* that the quotient is a whole number of points.                          *)
(***************************************************************************)
toDocument(v, s) == (v * s.d) \div s.n

toViewport(p, s) == (p * s.n) \div s.d

\* the zoom factors the first render leaves: (containerWidth - 32) / page width
Scales == {[n |-> 1, d |-> 1], [n |-> 2, d |-> 1]}

\* containerRef.current.clientWidth of the sessions of the model
ContainerWidths == {632, 1232}

Padding == 32

RECURSIVE Gcd(_, _)
Gcd(a, b) == IF b = 0 THEN a ELSE Gcd(b, a % b)

\* a quotient of two positive numbers as a fraction in lowest terms
Ratio(a, b) == [n |-> a \div Gcd(a, b), d |-> b \div Gcd(a, b)]

\* renderPage: viewport = page.getViewport({ scale: scale }), with the scale
\* of the render that created renderPage; the value it hands to setScale is
\* desiredScale = (containerWidth - 32) / viewport.width
renderPage(pdf, pageNum, cw, s) ==
    Ratio((cw - Padding) * s.d, pdf.widths[pageNum] * s.n)

(***************************************************************************)
(* The gestures.  g is the closure of onMouseDown: the field, the pointer  *)
(* and field geometry at pointer-down, and the template and scale of the   *)
(* render that created the handler.                                        *)
(***************************************************************************)
NoGesture == [kind |-> "none"]

\* no computation has been started
NoCalc == [pc |-> "none"]

dragClosure(t, s, field, pos) ==
    [kind |-> "drag", id |-> field.id, startX |-> pos[1], startY |-> pos[2],
     startLeft |-> OrElse(field.x, 0), startTop |-> OrElse(field.y, 0),
     template |-> t, scale |-> s]

resizeClosure(t, s, field, pos) ==
    [kind |-> "resize", id |-> field.id, startX |-> pos[1], startY |-> pos[2],
     startWidth |-> OrElse(field.width, 100),
     startHeight |-> OrElse(field.height, 20),
     template |-> t, scale |-> s]

onMovePersisting(g, pos) ==
    LET dx == toDocument(pos[1] - g.startX, g.scale)
        dy == toDocument(pos[2] - g.startY, g.scale)
        moved == updateField(g.template, g.id,
                     [x |-> Some(g.startLeft + dx), y |-> Some(g.startTop + dy)])
    IN  [template |-> moved, writes |-> <<persistField(moved)>>]

onMove(g, pos) ==
    LET dx == toDocument(pos[1] - g.startX, g.scale)
        dy == toDocument(pos[2] - g.startY, g.scale)
    IN  [template |->
            updateField(g.template, g.id,
                [x |-> Some(g.startLeft + dx), y |-> Some(g.startTop + dy)]),
         writes |-> <<>>]

onResizeUnclamped(g, pos) ==
    LET dx == toDocument(pos[1] - g.startX, g.scale)
        dy == toDocument(pos[2] - g.startY, g.scale)
    IN  [template |->
            updateField(g.template, g.id,
                [width |-> Some(g.startWidth + dx),
                 height |-> Some(g.startHeight + dy)]),
         writes |-> <<>>]

onResize(g, pos) ==
    LET dx == toDocument(pos[1] - g.startX, g.scale)
        dy == toDocument(pos[2] - g.startY, g.scale)
    IN  [template |->
            updateField(g.template, g.id,
                [width |-> Some(Max(MinWidth, g.startWidth + dx)),
                 height |-> Some(Max(MinHeight, g.startHeight + dy))]),
         writes |-> <<>>]

\* persistField() of the render of pointer-down
onUp(g) == [writes |-> <<persistField(g.template)>>]

\* the Field Name input: updateField(...); persistField() of the same render
renameField(t, id, name) ==
    [template |-> updateField(t, id, [name |-> name]),
     writes |-> <<persistField(t)>>]

\* the - and + buttons: fontSize: (selectedField.fontSize || 12) -+ 1
stepFontSize(t, field, delta) ==
    [template |->
        updateField(t, field.id,
            [fontSize |-> Some(OrElse(field.fontSize, DefaultFontSize) + delta)]),
     writes |-> <<persistField(t)>>]

\* template.fields.filter(f => f.pageIndex === currentPage - 1 && f.isManual)
currentFields(t, page) ==
    {i \in DOMAIN t.fields :
        t.fields[i].pageIndex = page - 1 /\ t.fields[i].isManual}

HasSelectedField == \E i \in DOMAIN template.fields :
    template.fields[i].id = selectedFieldId

\* template.fields.find(f => f.id === selectedFieldId)
selectedField ==
    template.fields[CHOOSE i \in DOMAIN template.fields :
        /\ template.fields[i].id = selectedFieldId
        /\ \A j \in 1..(i - 1) : template.fields[j].id /= selectedFieldId]

\* the value the mapping select of a field shows: mapping?.profileKey || ''
shownKey(t, fieldId) ==
    IF findIndex(t.mappings, fieldId) = 0 THEN ""
    ELSE t.mappings[findIndex(t.mappings, fieldId)].profileKey

(***************************************************************************)
(* The state after the editor has loaded a freshly analysed upload and     *)
(* rendered its first page.                                                *)
(***************************************************************************)
NoProfile == [name |-> "", fields |-> <<>>]

\* notice is what handleGenerate has shown for the run: "download" is
\* link.click(), "alert" is alert("Error generating PDF")
GenIdle ==
    [pc |-> "idle", idx |-> 0, calls |-> <<>>, failedAt |-> 0, notice |-> "none"]

Loaded(op) == [op |-> op, id |-> None]

Init ==
    \E pdf \in EditorPdfs, cw \in ContainerWidths, s \in Scales :
        /\ s = renderPage(pdf, 1, cw, [n |-> 1, d |-> 1])
        /\ containerWidth = cw
        /\ canvas = [page |-> 1, scale |-> s]
        /\ renders = {}
        /\ calc = NoCalc
        /\ templates = <<>>
        /\ alerts = <<>>
        /\ db = analyzePDF(pdf, "form")
        /\ template = db
        /\ pending = <<>>
        /\ selectedFieldId = None
        /\ showProperties = FALSE
        /\ currentPage = 1
        /\ numPages = Len(pdf.pages)
        /\ scale = s
        /\ gesture = NoGesture
        /\ now = 1
        /\ steps = 0
        /\ lastOp = Loaded("load")
        /\ profile = NoProfile
        /\ gen = GenIdle

\* a handler runs: no gesture holds the pointer, the session is not over
Idle == gesture = NoGesture /\ steps < MaxSteps

AddManualField ==
    \E ms \in now..(now + 1) :
        LET r == addManualField(template, ms, currentPage) IN
        /\ Idle
        /\ template' = r.template
        /\ pending' = pending \o r.writes
        /\ selectedFieldId' = customId(ms)
        /\ showProperties' = TRUE
        /\ now' = ms
        /\ steps' = steps + 1
        /\ lastOp' = [op |-> "addManualField", id |-> customId(ms)]
        /\ UNCHANGED <<db, currentPage, numPages, scale, gesture, profile, gen,
                   containerWidth, listVars, renderVars, calc>>

FieldMouseDown ==
    \E i \in currentFields(template, currentPage), pos \in PointerPos :
        /\ Idle
        /\ selectedFieldId' = template.fields[i].id
        /\ showProperties' = TRUE
        /\ gesture' = dragClosure(template, scale, template.fields[i], pos)
        /\ steps' = steps + 1
        /\ lastOp' = [op |-> "mouseDown", id |-> template.fields[i].id]
        /\ UNCHANGED <<template, db, pending, currentPage, numPages, scale,
                       now, profile, gen,
                   containerWidth, listVars, renderVars, calc>>

\* part_001: the resize handle is rendered on the selected field only
HandleMouseDown ==
    \E i \in currentFields(template, currentPage), pos \in PointerPos :
        /\ Idle
        /\ selectedFieldId = template.fields[i].id
        /\ gesture' = resizeClosure(template, scale, template.fields[i], pos)
        /\ steps' = steps + 1
        /\ lastOp' = [op |-> "handleDown", id |-> template.fields[i].id]
        /\ UNCHANGED <<template, db, pending, selectedFieldId, showProperties,
                       currentPage, numPages, scale, now, profile, gen,
                   containerWidth, listVars, renderVars, calc>>

MouseMove ==
    \E pos \in PointerPos :
        LET r == IF gesture.kind = "drag" THEN onMove(gesture, pos)
                 ELSE onResize(gesture, pos) IN
        /\ gesture /= NoGesture
        /\ steps < MaxSteps
        /\ template' = r.template
        /\ pending' = pending \o r.writes
        /\ steps' = steps + 1
        /\ lastOp' = [op |-> "mouseMove", id |-> gesture.id, pos |-> pos]
        /\ UNCHANGED <<db, selectedFieldId, showProperties, currentPage,
                       numPages, scale, gesture, now, profile, gen,
                   containerWidth, listVars, renderVars, calc>>

MouseUp ==
    /\ gesture /= NoGesture
    /\ steps < MaxSteps
    /\ pending' = pending \o onUp(gesture).writes
    /\ gesture' = NoGesture
    /\ steps' = steps + 1
    /\ lastOp' = [op |-> "mouseUp", id |-> gesture.id]
    /\ UNCHANGED <<template, db, selectedFieldId, showProperties, currentPage,
                   numPages, scale, now, profile, gen,
                   containerWidth, listVars, renderVars, calc>>

PanelOpen == showProperties /\ HasSelectedField

RenameField ==
    \E name \in Names :
        LET r == renameField(template, selectedFieldId, name) IN
        /\ Idle
        /\ PanelOpen
        /\ name /= selectedField.name
        /\ template' = r.template
        /\ pending' = pending \o r.writes
        /\ steps' = steps + 1
        /\ lastOp' = [op |-> "rename", id |-> selectedFieldId]
        /\ UNCHANGED <<db, selectedFieldId, showProperties, currentPage,
                       numPages, scale, gesture, now, profile, gen,
                   containerWidth, listVars, renderVars, calc>>

ChangeFontSize ==
    \E delta \in {-1, 1} :
        LET r == stepFontSize(template, selectedField, delta) IN
        /\ Idle
        /\ PanelOpen
        /\ template' = r.template
        /\ pending' = pending \o r.writes
        /\ steps' = steps + 1
        /\ lastOp' = [op |-> "fontSize", id |-> selectedFieldId]
        /\ UNCHANGED <<db, selectedFieldId, showProperties, currentPage,
                       numPages, scale, gesture, now, profile, gen,
                   containerWidth, listVars, renderVars, calc>>

DeleteField ==
    LET r == deleteField(template, selectedFieldId) IN
    /\ Idle
    /\ PanelOpen
    /\ template' = r.template
    /\ pending' = pending \o r.writes
    /\ selectedFieldId' = None
    /\ showProperties' = FALSE
    /\ steps' = steps + 1
    /\ lastOp' = [op |-> "deleteField", id |-> selectedFieldId]
    /\ UNCHANGED <<db, currentPage, numPages, scale, gesture, now, profile, gen,
                   containerWidth, listVars, renderVars, calc>>

\* the mapping select of a field of the template changes to another option
SaveMapping ==
    \E i \in DOMAIN template.fields, profileKey \in ProfileKeys \cup {""} :
        LET fieldId == template.fields[i].id
            r == saveMapping(template, fieldId, profileKey) IN
        /\ Idle
        /\ profileKey /= shownKey(template, fieldId)
        /\ template' = r.template
        /\ pending' = pending \o r.writes
        /\ steps' = steps + 1
        /\ lastOp' = [op |-> "saveMapping", id |-> fieldId, key |-> profileKey]
        /\ UNCHANGED <<db, selectedFieldId, showProperties, currentPage,
                       numPages, scale, gesture, now, profile, gen,
                   containerWidth, listVars, renderVars, calc>>

CloseProperties ==
    /\ Idle
    /\ PanelOpen
    /\ showProperties' = FALSE
    /\ steps' = steps + 1
    /\ lastOp' = [op |-> "closeProperties", id |-> selectedFieldId]
    /\ UNCHANGED <<template, db, pending, selectedFieldId, currentPage,
                   numPages, scale, gesture, now, profile, gen,
                   containerWidth, listVars, renderVars, calc>>

\* the page buttons, disabled at the first and the last page: handlePageChange
\* and the renderPage it starts, which completes before the next handler runs
HandlePageChange ==
    \E newPage \in {currentPage - 1, currentPage + 1} :
        /\ Idle
        /\ newPage >= 1 /\ newPage <= numPages
        /\ currentPage' = newPage
        /\ scale' = renderPage(template.pdfData, newPage, containerWidth, scale)
        /\ canvas' = [page |-> newPage, scale |-> scale']
        /\ steps' = steps + 1
        /\ lastOp' = [op |-> "pageChange", id |-> None]
        /\ UNCHANGED <<template, db, pending, selectedFieldId, showProperties,
                       numPages, gesture, now, profile, gen,
                       containerWidth, listVars, renders, calc>>

\* the storage applies the oldest update; updates are applied in issue order
CompleteWrite ==
    /\ pending /= <<>>
    /\ db' = dbApply(db, Head(pending))
    /\ pending' = Tail(pending)
    /\ UNCHANGED <<template, selectedFieldId, showProperties, currentPage,
                   numPages, scale, gesture, now, steps, lastOp, profile, gen,
                   containerWidth, listVars, renderVars, calc>>

Next ==
    \/ AddManualField
    \/ FieldMouseDown
    \/ HandleMouseDown
    \/ MouseMove
    \/ MouseUp
    \/ RenameField
    \/ ChangeFontSize
    \/ DeleteField
    \/ SaveMapping
    \/ CloseProperties
    \/ HandlePageChange
    \/ CompleteWrite

Spec == Init /\ [][Next]_vars

(***************************************************************************)
(* pdfService.ts: generateFilledPDF.  A text is a sequence of characters;  *)
(* "U+2713" stands for one character that the WinAnsi encoding of the      *)
(* embedded Helvetica font does not hold, so that drawText throws on it.   *)
(***************************************************************************)
UpperOf(c) == CASE c = "j" -> "J" [] c = "d" -> "D" [] OTHER -> c

LowerOf(c) == CASE c = "J" -> "j" [] c = "D" -> "d" [] OTHER -> c

toUpperCase(v) == [i \in DOMAIN v |-> UpperOf(v[i])]

toLowerCase(v) == [i \in DOMAIN v |-> LowerOf(v[i])]

resolveValueMissingAsMark(p, m) ==
    IF m.profileKey \in DOMAIN p.fields THEN p.fields[m.profileKey] ELSE <<"-">>

\* profile.fields[mapping.profileKey] || ''
resolveValue(p, m) ==
    IF m.profileKey \in DOMAIN p.fields THEN p.fields[m.profileKey] ELSE <<>>

applyTransformationUpperOnly(v, tr) ==
    IF tr = "uppercase" THEN toUpperCase(v) ELSE v

applyTransformation(v, tr) ==
    IF tr = "uppercase" THEN toUpperCase(v)
    ELSE IF tr = "lowercase" THEN toLowerCase(v)
    ELSE v

\* template.fields.find(f => f.id === mapping.templateFieldId), 0 for undefined
findField(t, id) ==
    IF \E i \in DOMAIN t.fields : t.fields[i].id = id
    THEN CHOOSE i \in DOMAIN t.fields :
            /\ t.fields[i].id = id
            /\ \A j \in 1..(i - 1) : t.fields[j].id /= id
    ELSE 0

\* form.getField(name) throws when the form has no such field; setText is a
\* method of text fields only
formAccepts(pdf, name) ==
    \E i \in DOMAIN pdf.acroFields :
        pdf.acroFields[i].name = name /\ pdf.acroFields[i].kind = "text"

\* page.drawText encodes the text with the font and throws on a character the
\* font cannot encode
painterAccepts(text) == \A i \in DOMAIN text : text[i] /= "U+2713"

BaselineCorrection == 4

DefaultHeightAtPaint == 20

pdfYWithoutCorrection(pageHeight, f) ==
    pageHeight - OrElse(f.y, 0) - OrElse(f.height, DefaultHeightAtPaint)

pdfY(pageHeight, f) ==
    pageHeight - OrElse(f.y, 0) - OrElse(f.height, DefaultHeightAtPaint)
        + BaselineCorrection

\* the outcome of one iteration of the loop: the collaborator call it makes,
\* if any, and whether an exception leaves the loop
skipped == [calls |-> <<>>, threw |-> FALSE]

nativeStepUncaught(pdf, f, value) ==
    [calls |-> <<[kind |-> "form", fieldName |-> f.id, text |-> value,
                  result |-> IF formAccepts(pdf, f.id) THEN "set" ELSE "failed"]>>,
     threw |-> ~formAccepts(pdf, f.id)]

nativeStep(pdf, f, value) ==
    [calls |-> <<[kind |-> "form", fieldName |-> f.id, text |-> value,
                  result |-> IF formAccepts(pdf, f.id) THEN "set" ELSE "failed"]>>,
     threw |-> FALSE]

manualStepAtViewportScale(pdf, f, value) ==
    IF f.pageIndex + 1 \in DOMAIN pdf.pages /\ f.x /= None /\ f.y /= None
    THEN [calls |-> <<[kind |-> "painter", page |-> f.pageIndex,
                       x |-> toViewport(f.x[1], scale),
                       y |-> pdfY(pdf.pages[f.pageIndex + 1], f), text |-> value,
                       size |-> OrElse(f.fontSize, DefaultFontSize),
                       maxWidth |-> f.width,
                       result |-> IF painterAccepts(value) THEN "drawn"
                                  ELSE "threw"]>>,
          threw |-> ~painterAccepts(value)]
    ELSE skipped

manualStepThrowingOffPage(pdf, f, value) ==
    IF f.pageIndex + 1 \notin DOMAIN pdf.pages
    THEN [calls |-> <<>>, threw |-> TRUE]
    ELSE IF f.x /= None /\ f.y /= None
    THEN [calls |-> <<[kind |-> "painter", page |-> f.pageIndex, x |-> f.x[1],
                       y |-> pdfY(pdf.pages[f.pageIndex + 1], f), text |-> value,
                       size |-> OrElse(f.fontSize, DefaultFontSize),
                       maxWidth |-> f.width,
                       result |-> IF painterAccepts(value) THEN "drawn"
                                  ELSE "threw"]>>,
          threw |-> ~painterAccepts(value)]
    ELSE skipped

manualStep(pdf, f, value) ==
    IF f.pageIndex + 1 \in DOMAIN pdf.pages /\ f.x /= None /\ f.y /= None
    THEN [calls |-> <<[kind |-> "painter", page |-> f.pageIndex, x |-> f.x[1],
                       y |-> pdfY(pdf.pages[f.pageIndex + 1], f), text |-> value,
                       size |-> OrElse(f.fontSize, DefaultFontSize),
                       maxWidth |-> f.width,
                       result |-> IF painterAccepts(value) THEN "drawn"
                                  ELSE "threw"]>>,
          threw |-> ~painterAccepts(value)]
    ELSE skipped

mappingStepStaleThrows(t, p, m) ==
    LET i == findField(t, m.templateFieldId)
        value == applyTransformation(resolveValue(p, m), m.transformation)
    IN  IF i = 0 THEN [calls |-> <<>>, threw |-> TRUE]
        ELSE IF ~t.fields[i].isManual THEN nativeStep(t.pdfData, t.fields[i], value)
        ELSE manualStep(t.pdfData, t.fields[i], value)

mappingStep(t, p, m) ==
    LET i == findField(t, m.templateFieldId)
        value == applyTransformation(resolveValue(p, m), m.transformation)
    IN  IF i = 0 THEN skipped
        ELSE IF ~t.fields[i].isManual THEN nativeStep(t.pdfData, t.fields[i], value)
        ELSE manualStep(t.pdfData, t.fields[i], value)

\* await PDFDocument.load(template.pdfData), getForm, getPages, embedFont
GenLoad ==
    /\ gen.pc = "idle"
    /\ gen' = IF template.pdfData.valid
              THEN [gen EXCEPT !.pc = "loop", !.idx = 1]
              ELSE [gen EXCEPT !.pc = "error"]
    /\ UNCHANGED <<editorVars, profile>>

\* one iteration of for (const mapping of template.mappings)
GenStep ==
    /\ gen.pc = "loop"
    /\ gen.idx <= Len(template.mappings)
    /\ LET r == mappingStep(template, profile, template.mappings[gen.idx])
           made == [i \in DOMAIN r.calls |-> [at |-> gen.idx, call |-> r.calls[i]]]
       IN  gen' = IF r.threw
                  THEN [gen EXCEPT !.pc = "error", !.failedAt = gen.idx,
                                   !.calls = @ \o made]
                  ELSE [gen EXCEPT !.idx = @ + 1, !.calls = @ \o made]
    /\ UNCHANGED <<editorVars, profile>>

\* return await pdfDoc.save()
GenSave ==
    /\ gen.pc = "loop"
    /\ gen.idx > Len(template.mappings)
    /\ gen' = [gen EXCEPT !.pc = "done"]
    /\ UNCHANGED <<editorVars, profile>>

handleGenerateEndAlwaysDownloading(pc) == "download"

\* handleGenerate after await generateFilledPDF(template, profile): the rest
\* of the try block when it returned bytes, the catch block when it threw
handleGenerateEnd(pc) == IF pc = "done" THEN "download" ELSE "alert"

HandleGenerateEnd ==
    /\ gen.pc \in {"done", "error"}
    /\ gen.notice = "none"
    /\ gen' = [gen EXCEPT !.notice = handleGenerateEnd(gen.pc)]
    /\ UNCHANGED <<editorVars, profile>>

(***************************************************************************)
(* The generator on its inputs: a template of the record store and a       *)
(* profile.  The template holds the two form fields of the document and one*)
(* manual field; its mappings are any list of at most MaxMappings mappings *)
(* of these fields or of a field that is no longer there.                  *)
(***************************************************************************)
MaxMappings == 2

ManualBox ==
    [id |-> customId(1), name |-> "New Field", type |-> "TEXT",
     isManual |-> TRUE, pageIndex |-> 0, x |-> Some(50), y |-> Some(50),
     width |-> Some(150), height |-> Some(30), fontSize |-> Some(14)]

\* the manual field as the editor leaves it (any font size the - button
\* reaches, 0 included; any page), or as the TemplateField type lets a record
\* hold it: an attribute missing, a height of 0
ManualVariants ==
    {ManualBox,
     [ManualBox EXCEPT !.fontSize = None],
     [ManualBox EXCEPT !.fontSize = Some(0)],
     [ManualBox EXCEPT !.height = Some(0)],
     [ManualBox EXCEPT !.pageIndex = 1, !.y = Some(70)],
     [ManualBox EXCEPT !.pageIndex = 5],
     [ManualBox EXCEPT !.x = None],
     [ManualBox EXCEPT !.y = None],
     [ManualBox EXCEPT !.width = None],
     [ManualBox EXCEPT !.height = None]}

DeletedFieldId == customId(9)

GenMappings ==
    [templateFieldId : {AcroText.name, ManualBox.id}, profileKey : {"Full Name"},
     transformation : {"undefined", "none", "uppercase", "lowercase"}]
    \cup [templateFieldId : {AcroText.name, ManualBox.id}, profileKey : {"Date"},
          transformation : {"undefined"}]
    \cup {[templateFieldId |-> AcroCheck.name, profileKey |-> "Full Name",
           transformation |-> "uppercase"],
          [templateFieldId |-> DeletedFieldId, profileKey |-> "Full Name",
           transformation |-> "undefined"]}

GenMappingLists ==
    UNION {[1..n -> GenMappings] : n \in 0..MaxMappings}

GenTexts == {<<"j", "D">>, <<"1", "-">>, <<"U+2713">>}

GenProfiles == {[name |-> "Me", fields |-> ("Full Name" :> v)] : v \in GenTexts}

GenTemplates ==
    {[name |-> "form", pdfData |-> pdf,
      fields |-> Append(analyzePDF(FormPdf, "form").fields, manual),
      mappings |-> ms] :
        pdf \in {FormPdf, BrokenPdf}, manual \in ManualVariants,
        ms \in GenMappingLists}

GenInit ==
    /\ template \in GenTemplates
    /\ profile \in GenProfiles
    /\ gen = GenIdle
    /\ db = template
    /\ pending = <<>>
    /\ selectedFieldId = None
    /\ showProperties = FALSE
    /\ currentPage = 1
    /\ numPages = Len(template.pdfData.pages)
    /\ scale \in Scales
    /\ gesture = NoGesture
    /\ now = 1
    /\ steps = 0
    /\ lastOp = Loaded("generate")
    /\ containerWidth = 632
    /\ canvas = [page |-> 1, scale |-> scale]
    /\ renders = {}
    /\ calc = NoCalc
    /\ templates = <<>>
    /\ alerts = <<>>

GenNext ==
    \/ GenLoad
    \/ GenStep
    \/ GenSave
    \/ HandleGenerateEnd

SpecGen == GenInit /\ [][GenNext]_vars

(***************************************************************************)
(* TemplateList (src/unnamed/part_002): the uploads.  A file is its MIME   *)
(* type, its name and what PDFDocument.load makes of its bytes; load       *)
(* rejects bytes that are not a document, and analyzePDF with it.  The     *)
(* table assigns the ids on insert: the id of a record is its position.    *)
(***************************************************************************)
MaxUploads == 3

UploadFiles ==
    [type : {"application/pdf", "text/plain"}, name : {"form.pdf", "scan.pdf"},
     bytes : {PlainPdf, FormPdf, BrokenPdf}]

\* file.name.replace('.pdf', '')
withoutPdf(name) ==
    CASE name = "form.pdf" -> "form" [] name = "scan.pdf" -> "scan" [] OTHER -> name

\* await PDFDocument.load(arrayBuffer) of analyzePDF rejects
analyzeThrows(pdf) == ~pdf.valid

handleFileUploadAddingAnyway(table, shown, file) ==
    IF file.type /= "application/pdf"
    THEN [templates |-> table,
          alerts |-> Append(shown, "Please upload a PDF file.")]
    ELSE IF analyzeThrows(file.bytes)
    THEN [templates |-> Append(table, analyzePDF(file.bytes, withoutPdf(file.name))),
          alerts |-> Append(shown, "Error processing PDF")]
    ELSE [templates |-> Append(table, analyzePDF(file.bytes, withoutPdf(file.name))),
          alerts |-> shown]

handleFileUpload(table, shown, file) ==
    IF file.type /= "application/pdf"
    THEN [templates |-> table,
          alerts |-> Append(shown, "Please upload a PDF file.")]
    ELSE IF analyzeThrows(file.bytes)
    THEN [templates |-> table, alerts |-> Append(shown, "Error processing PDF")]
    ELSE [templates |-> Append(table, analyzePDF(file.bytes, withoutPdf(file.name))),
          alerts |-> shown]

\* useState<Template | null>(null): no template is open in the editor
NoTemplate == <<>>

UploadInit ==
    /\ templates = <<>>
    /\ alerts = <<>>
    /\ steps = 0
    /\ lastOp = Loaded("list")
    /\ template = NoTemplate
    /\ db = NoTemplate
    /\ pending = <<>>
    /\ selectedFieldId = None
    /\ showProperties = FALSE
    /\ currentPage = 1
    /\ numPages = 0
    /\ scale = [n |-> 1, d |-> 1]
    /\ gesture = NoGesture
    /\ now = 1
    /\ profile = NoProfile
    /\ gen = GenIdle
    /\ containerWidth = 632
    /\ canvas = [page |-> 1, scale |-> scale]
    /\ renders = {}
    /\ calc = NoCalc

HandleFileUpload ==
    \E file \in UploadFiles :
        LET r == handleFileUpload(templates, alerts, file) IN
        /\ steps < MaxUploads
        /\ templates' = r.templates
        /\ alerts' = r.alerts
        /\ steps' = steps + 1
        /\ lastOp' = [op |-> "upload", id |-> None, file |-> file]
        /\ UNCHANGED <<template, db, pending, selectedFieldId, showProperties,
                       currentPage, numPages, scale, gesture, now, profile, gen,
                       containerWidth, renderVars, calc>>

UploadNext == HandleFileUpload

SpecUpload == UploadInit /\ [][UploadNext]_vars

(***************************************************************************)
(* saveMapping on its inputs: called for any field id, of a field of the   *)
(* template or of none, and any key of the mapping select.                 *)
(***************************************************************************)
MaxCalls == 2

ResolverTemplate ==
    [name |-> "form", pdfData |-> FormPdf,
     fields |-> Append(analyzePDF(FormPdf, "form").fields, ManualBox),
     mappings |-> <<>>]

\* the stored templates a bind starts from: no mapping yet, or a mapping
\* that carries a transformation
ResolverTemplates ==
    {ResolverTemplate,
     [ResolverTemplate EXCEPT !.mappings =
        <<[templateFieldId |-> AcroText.name, profileKey |-> "Full Name",
           transformation |-> "uppercase"]>>]}

ResolverInit ==
    /\ template \in ResolverTemplates
    /\ db = template
    /\ pending = <<>>
    /\ steps = 0
    /\ lastOp = Loaded("load")
    /\ selectedFieldId = None
    /\ showProperties = FALSE
    /\ currentPage = 1
    /\ numPages = Len(template.pdfData.pages)
    /\ scale = [n |-> 1, d |-> 1]
    /\ gesture = NoGesture
    /\ now = 1
    /\ profile = NoProfile
    /\ gen = GenIdle
    /\ containerWidth = 632
    /\ canvas = [page |-> 1, scale |-> scale]
    /\ renders = {}
    /\ calc = NoCalc
    /\ templates = <<>>
    /\ alerts = <<>>

ResolverSaveMapping ==
    \E fieldId \in FieldIds(template) \cup {DeletedFieldId},
       profileKey \in ProfileKeys \cup {""} :
        LET r == saveMapping(template, fieldId, profileKey) IN
        /\ steps < MaxCalls
        /\ template' = r.template
        /\ pending' = pending \o r.writes
        /\ steps' = steps + 1
        /\ lastOp' = [op |-> "saveMapping", id |-> fieldId, key |-> profileKey,
                      before |-> template.mappings]
        /\ UNCHANGED <<db, selectedFieldId, showProperties, currentPage,
                       numPages, scale, gesture, now, profile, gen,
                       containerWidth, listVars, renderVars, calc>>

ResolverNext ==
    \/ ResolverSaveMapping
    \/ CompleteWrite

SpecResolver == ResolverInit /\ [][ResolverNext]_vars

(***************************************************************************)
(* TemplateEditor.tsx, lines 194-219: the arithmetic of the overlay and of *)
(* onMove on floating-point numbers.  field.x, scale and the pointer       *)
(* coordinates are JavaScript numbers: binary floating point, every        *)
(* operation rounded to the nearest representable value, ties to the even  *)
(* significand.  The model keeps the rounding and shortens the significand *)
(* from 53 bits to SignificandBits; a number is a fraction in lowest terms.*)
(***************************************************************************)
SignificandBits == 4

\* n / d rounded to the nearest number with a significand of SignificandBits
\* bits, ties to even
RECURSIVE fround(_, _)
fround(n, d) ==
    IF n = 0 THEN [n |-> 0, d |-> 1]
    ELSE IF n < 2 ^ (SignificandBits - 1) * d
    THEN LET r == fround(2 * n, d) IN Ratio(r.n, 2 * r.d)
    ELSE IF n >= 2 ^ SignificandBits * d
    THEN LET r == fround(n, 2 * d) IN Ratio(2 * r.n, r.d)
    ELSE LET q == n \div d
             rem == n % d
         IN  [n |-> IF 2 * rem < d THEN q
                    ELSE IF 2 * rem > d THEN q + 1
                    ELSE IF q % 2 = 0 THEN q ELSE q + 1,
              d |-> 1]

\* the operators *, / and + of two numbers
times(a, b) == fround(a.n * b.n, a.d * b.d)

over(a, b) == fround(a.n * b.d, a.d * b.n)

plus(a, b) == fround(a.n * b.d + b.n * a.d, a.d * b.d)

\* style.left of the overlay: (field.x || 0) * scale
left(x, s) == times(x, s)

\* const dx = (moveEvent.clientX - startX) / scale
dx(delta, s) == over(delta, s)

onMoveThroughViewport(startLeft, delta, s) ==
    over(plus(times(startLeft, s), delta), s)

\* the x that onMove hands to updateField: startLeft + dx
onMoveX(startLeft, delta, s) == plus(startLeft, dx(delta, s))

\* field.x of the boxes of the model, in document points
Points == {[n |-> k, d |-> 1] : k \in 1..15}

\* the zoom factors of the model, 0.5 to 1.875 in steps of 1/8
Zooms == {Ratio(k, 8) : k \in 4..15}

\* moveEvent.clientX - startX of the pointer-moves of the model
Deltas == {[n |-> 0, d |-> 1], [n |-> 4, d |-> 1]}

TransformInit ==
    /\ \E p \in Points, s \in Zooms : calc = [pc |-> "start", p |-> p, s |-> s]
    /\ template = analyzePDF(PlainPdf, "form")
    /\ db = template
    /\ pending = <<>>
    /\ steps = 0
    /\ lastOp = Loaded("load")
    /\ selectedFieldId = None
    /\ showProperties = FALSE
    /\ currentPage = 1
    /\ numPages = Len(template.pdfData.pages)
    /\ scale = [n |-> 1, d |-> 1]
    /\ gesture = NoGesture
    /\ now = 1
    /\ profile = NoProfile
    /\ gen = GenIdle
    /\ containerWidth = 632
    /\ canvas = [page |-> 1, scale |-> scale]
    /\ renders = {}
    /\ templates = <<>>
    /\ alerts = <<>>

\* the overlay of a box at x = p is laid out at zoom s
ShowOverlay ==
    /\ calc.pc = "start"
    /\ calc' = [pc |-> "shown", p |-> calc.p, s |-> calc.s,
                left |-> left(calc.p, calc.s)]
    /\ UNCHANGED <<template, db, pending, selectedFieldId, showProperties,
                   currentPage, numPages, scale, gesture, now, steps, lastOp,
                   profile, gen, containerWidth, listVars, renderVars>>

\* the viewport coordinate of the overlay is divided by the zoom factor
ConvertBack ==
    /\ calc.pc = "shown"
    /\ calc' = [pc |-> "back", p |-> calc.p, s |-> calc.s, left |-> calc.left,
                back |-> over(calc.left, calc.s)]
    /\ UNCHANGED <<template, db, pending, selectedFieldId, showProperties,
                   currentPage, numPages, scale, gesture, now, steps, lastOp,
                   profile, gen, containerWidth, listVars, renderVars>>

\* a pointer-move of the drag that started on the overlay
DragMove ==
    \E delta \in Deltas :
        /\ calc.pc = "shown"
        /\ calc' = [pc |-> "dragged", p |-> calc.p, s |-> calc.s,
                    left |-> calc.left, delta |-> delta,
                    x |-> onMoveX(calc.p, delta, calc.s)]
        /\ UNCHANGED <<template, db, pending, selectedFieldId, showProperties,
                       currentPage, numPages, scale, gesture, now, steps,
                       lastOp, profile, gen, containerWidth, listVars,
                       renderVars>>

TransformNext ==
    \/ ShowOverlay
    \/ ConvertBack
    \/ DragMove

SpecTransform == TransformInit /\ [][TransformNext]_vars

(***************************************************************************)
(* TemplateEditor.tsx, lines 56-86: renderPage as the asynchronous         *)
(* function it is.  handlePageChange starts a render and returns; the      *)
(* render suspends at await pdf.getPage and at await page.render, and the  *)
(* page buttons stay enabled meanwhile.  A render in flight is a record of *)
(* its page number, the scale its closure captured and its position; the   *)
(* canvas is the page drawn on it (0: cleared) and the scale of the        *)
(* viewport it was drawn with.                                             *)
(***************************************************************************)
MaxRenders == 3

RenderInit == Init

\* handlePageChange: setCurrentPage(newPage) and the call of renderPage up to
\* its first await
RenderPageChange ==
    \E newPage \in {currentPage - 1, currentPage + 1} :
        /\ steps < MaxRenders
        /\ newPage >= 1 /\ newPage <= numPages
        /\ currentPage' = newPage
        /\ renders' = renders \cup
                {[seq |-> steps + 1, pageNum |-> newPage, s |-> scale,
                  stage |-> "getPage", desired |-> scale]}
        /\ steps' = steps + 1
        /\ lastOp' = [op |-> "pageChange", id |-> None]
        /\ UNCHANGED <<template, db, pending, selectedFieldId, showProperties,
                       numPages, scale, gesture, now, profile, gen,
                       containerWidth, listVars, canvas, calc>>

\* pdf.getPage has resolved: setScale(desiredScale), the canvas is resized,
\* which clears it, and page.render is started
RenderGotPage ==
    \E r \in renders :
        LET desiredScale ==
                renderPage(template.pdfData, r.pageNum, containerWidth, r.s) IN
        /\ r.stage = "getPage"
        /\ scale' = desiredScale
        /\ canvas' = [page |-> 0, scale |-> desiredScale]
        /\ renders' = (renders \ {r}) \cup
                {[r EXCEPT !.stage = "drawing", !.desired = desiredScale]}
        /\ UNCHANGED <<template, db, pending, selectedFieldId, showProperties,
                       currentPage, numPages, gesture, now, steps, lastOp,
                       profile, gen, containerWidth, listVars, calc>>

\* page.render has resolved: the page of this render is on the canvas
RenderDone ==
    \E r \in renders :
        /\ r.stage = "drawing"
        /\ canvas' = [page |-> r.pageNum, scale |-> r.desired]
        /\ renders' = renders \ {r}
        /\ UNCHANGED <<template, db, pending, selectedFieldId, showProperties,
                       currentPage, numPages, scale, gesture, now, steps,
                       lastOp, profile, gen, containerWidth, listVars, calc>>

\* page.render has rejected because another render is drawing on the same
\* canvas (a pdf.js that refuses a canvas in use): the catch logs the error
RenderRefused ==
    \E r \in renders :
        /\ r.stage = "drawing"
        /\ \E other \in renders \ {r} : other.stage = "drawing"
        /\ renders' = renders \ {r}
        /\ UNCHANGED <<template, db, pending, selectedFieldId, showProperties,
                       currentPage, numPages, scale, gesture, now, steps,
                       lastOp, profile, gen, containerWidth, listVars, canvas,
                       calc>>

RenderNext ==
    \/ RenderPageChange
    \/ RenderGotPage
    \/ RenderDone
    \/ RenderRefused

SpecRender == RenderInit /\ [][RenderNext]_vars

(***************************************************************************)
(* Properties of the editor session.                                       *)
(***************************************************************************)
WritesDone == pending = <<>>

IndexOfField(t, id) == {i \in DOMAIN t.fields : t.fields[i].id = id}

MappingsOf(t, id) == {i \in DOMAIN t.mappings : t.mappings[i].templateFieldId = id}

NoOrphanMappings(t) ==
    \A i \in DOMAIN t.mappings : t.mappings[i].templateFieldId \in FieldIds(t)

\* C1: after a drag gesture, once the write of pointer-up has been applied,
\* the persisted x and y of the dragged field equal its in-memory x and y
\* (the position the last pointer-move computed).
C1_DragPersistsLastPosition ==
    (lastOp.op = "mouseUp" /\ WritesDone) =>
        \A i \in IndexOfField(template, lastOp.id) :
            /\ i \in DOMAIN db.fields
            /\ db.fields[i].x = template.fields[i].x
            /\ db.fields[i].y = template.fields[i].y

\* C2: every mapping of the in-memory template and of the persisted record
\* references a field of the same template, in every state; and deleteField
\* issues one write that carries both the field list without the field and
\* the mapping list without its mappings.
C2_NoOrphanMappings ==
    /\ [](NoOrphanMappings(template) /\ NoOrphanMappings(db))
    /\ [][(lastOp'.op = "deleteField" /\ steps' = steps + 1) =>
            /\ Len(pending') = Len(pending) + 1
            /\ LET w == pending'[Len(pending')].changes IN
                /\ {"fields", "mappings"} \subseteq DOMAIN w
                /\ IndexOfField(w, lastOp'.id) = {}
                /\ MappingsOf(w, lastOp'.id) = {}
                /\ w.fields = template'.fields
                /\ w.mappings = template'.mappings]_vars

\* a mapped field has just been deleted: the persisted record still holds the
\* mapping, the in-memory template and the write in flight do not
C2_Witness ==
    /\ lastOp.op = "deleteField"
    /\ MappingsOf(db, lastOp.id) /= {}
    /\ MappingsOf(template, lastOp.id) = {}
    /\ Len(pending) = 1

\* C3: no template, in memory or persisted, holds two mappings of the same
\* field; right after saveMapping the field has exactly one mapping when the
\* key was non-empty and none when it was empty.
C3_OneMappingPerField ==
    /\ \A id \in FieldIds(template) : Cardinality(MappingsOf(template, id)) <= 1
    /\ \A id \in FieldIds(db) : Cardinality(MappingsOf(db, id)) <= 1
    /\ lastOp.op = "saveMapping" =>
            Cardinality(MappingsOf(template, lastOp.id)) =
                IF lastOp.key = "" THEN 0 ELSE 1

\* a rebind: the persisted record still maps the field to the previous key
C3_Witness ==
    /\ lastOp.op = "saveMapping"
    /\ lastOp.key /= ""
    /\ \E i \in MappingsOf(db, lastOp.id) : db.mappings[i].profileKey /= lastOp.key
    /\ \E i \in MappingsOf(template, lastOp.id) :
            template.mappings[i].profileKey = lastOp.key

\* C4: the ids of the fields of the template are pairwise different.
C4_FieldIdsUnique ==
    \A i, j \in DOMAIN template.fields :
        template.fields[i].id = template.fields[j].id => i = j

\* C5: after a rename or a font-size change, once the write it issued has
\* been applied, the persisted field list equals the in-memory field list.
C5_PropertyEditPersisted ==
    (lastOp.op \in {"rename", "fontSize"} /\ WritesDone) =>
        db.fields = template.fields

\* C6: while a gesture is in progress (from pointer-down until pointer-up)
\* no write is issued, and a step that completes no earlier write, a
\* pointer-move in particular, leaves the persisted record unchanged.
C6_NoWriteDuringGesture ==
    [][gesture' /= NoGesture =>
        /\ \/ pending' = pending
           \/ pending /= <<>> /\ pending' = Tail(pending)
        /\ pending' = pending => db' = db]_vars

\* a pointer-move has moved the field in memory; the persisted record still
\* holds the field list of pointer-down
C6_Witness ==
    /\ lastOp.op = "mouseMove"
    /\ gesture /= NoGesture
    /\ template.fields /= gesture.template.fields
    /\ WritesDone
    /\ db.fields = gesture.template.fields

C22_BytesNeverChange ==
    [][/\ template'.pdfData = template.pdfData
       /\ db'.pdfData = db.pdfData
       /\ \A i \in DOMAIN pending' :
            "pdfData" \in DOMAIN pending'[i].changes =>
                pending'[i].changes.pdfData = template.pdfData]_vars

\* a box has been added and deleted again and the writes that carried the
\* whole template have been applied: the persisted record still holds the
\* analysed document
C22_Witness ==
    /\ lastOp.op = "deleteField"
    /\ WritesDone
    /\ db = template
    /\ db.pdfData = TextFormPdf
    /\ Len(db.fields) = 1
    /\ ~db.fields[1].isManual

\* C26 as stated: a pointer-move of a drag at zoom factor s puts the dragged
\* field at the position it had at pointer-down plus the pointer delta
\* divided by s, and changes nothing else: no other attribute of the field,
\* no other field, no mapping.
C26_DragMovesOnlyTheField ==
    [][(lastOp'.op = "mouseMove" /\ gesture.kind = "drag"
            /\ steps' = steps + 1) =>
        \E i \in DOMAIN template.fields :
            /\ template.fields[i].id = gesture.id
            /\ template' =
                [template EXCEPT !.fields[i] =
                    [@ EXCEPT
                        !.x = <<gesture.startLeft
                                + ((lastOp'.pos[1] - gesture.startX)
                                    * gesture.scale.d) \div gesture.scale.n>>,
                        !.y = <<gesture.startTop
                                + ((lastOp'.pos[2] - gesture.startY)
                                    * gesture.scale.d) \div gesture.scale.n>>]]
       ]_vars

\* C28 as stated: at most one field is selected: the selected id is none or
\* the id of exactly one field of the template.
C28_AtMostOneSelected ==
    selectedFieldId = None
        \/ Cardinality(IndexOfField(template, selectedFieldId)) = 1

\* C29: the page shown is a page of the document, 1 <= currentPage <=
\* max(1, numPages), and every manual field, in memory and persisted, has a
\* pageIndex in 0..numPages-1, which generation finds among the pages of the
\* document.
C29_PageInRange ==
    /\ currentPage >= 1
    /\ currentPage <= (IF numPages > 1 THEN numPages ELSE 1)
    /\ \A t \in {template, db} :
        \A i \in DOMAIN t.fields :
            t.fields[i].isManual =>
                /\ t.fields[i].pageIndex \in 0..(numPages - 1)
                /\ t.fields[i].pageIndex + 1 \in DOMAIN t.pdfData.pages

\* the last page of a two-page document is shown and a box added on it has
\* been persisted with the index of that page
C29_Witness ==
    /\ numPages = 2
    /\ currentPage = numPages
    /\ lastOp.op = "addManualField"
    /\ WritesDone
    /\ \E i \in DOMAIN db.fields :
        /\ db.fields[i].id = lastOp.id
        /\ db.fields[i].pageIndex = numPages - 1

\* the zoom factor that fits a page of the given width at scale 1 into the
\* container
fitScale(cw, pageWidth) == Ratio(cw - Padding, pageWidth)

\* C16: after every page render, the first one and those a page change
\* starts, the zoom factor is (containerWidth - padding) / (width of the
\* page shown at scale 1), whatever the zoom factor was before.
C16_ZoomFitsContainer ==
    scale = fitScale(containerWidth, template.pdfData.widths[currentPage])

ManualFieldsOf(t) == {i \in DOMAIN t.fields : t.fields[i].isManual}

\* C17: every manual field of the in-memory template and of the persisted
\* record is at least 20 wide and 10 high, in every state: before, during
\* and after a resize, whatever the pointer's travel.
C17_MinimumBoxSize ==
    \A t \in {template, db} : \A i \in ManualFieldsOf(t) :
        /\ t.fields[i].width /= <<>>
        /\ t.fields[i].width[1] >= 20
        /\ t.fields[i].height /= <<>>
        /\ t.fields[i].height[1] >= 10

\* the pointer has travelled 200 to the left and 30 up on the resize handle
\* of the default box at zoom 1: the box is 20 wide and 10 high
C17_Witness ==
    /\ gesture.kind = "resize"
    /\ lastOp.op = "mouseMove"
    /\ gesture.scale = [n |-> 1, d |-> 1]
    /\ gesture.startWidth = 150 /\ gesture.startHeight = 30
    /\ \E i \in IndexOfField(template, gesture.id) :
        template.fields[i].width = <<20>> /\ template.fields[i].height = <<10>>

\* C19: no mapping of the in-memory template, of the persisted record or of
\* a write in flight has an empty profileKey; right after saveMapping with
\* the empty key the field has no mapping.
C19_NoEmptyKeyMapping ==
    /\ \A t \in {template, db} : \A i \in DOMAIN t.mappings :
        t.mappings[i].profileKey /= ""
    /\ \A w \in DOMAIN pending :
        "mappings" \in DOMAIN pending[w].changes =>
            \A i \in DOMAIN pending[w].changes.mappings :
                pending[w].changes.mappings[i].profileKey /= ""
    /\ (lastOp.op = "saveMapping" /\ lastOp.key = "") =>
        MappingsOf(template, lastOp.id) = {}

\* a field has been unbound: the persisted record still holds its mapping,
\* the in-memory template and the write in flight hold none
C19_Witness ==
    /\ lastOp.op = "saveMapping"
    /\ lastOp.key = ""
    /\ MappingsOf(db, lastOp.id) /= {}
    /\ template.mappings = <<>>
    /\ pending /= <<>>
    /\ pending[Len(pending)].changes.mappings = <<>>

GenProcessed ==
    IF gen.pc = "loop" THEN 1..(gen.idx - 1)
    ELSE IF gen.pc = "done" THEN DOMAIN template.mappings
    ELSE IF gen.pc = "error" THEN 1..gen.failedAt
    ELSE {}

CallsAt(k) == {i \in DOMAIN gen.calls : gen.calls[i].at = k}

Stale(k) == template.mappings[k].templateFieldId \notin FieldIds(template)

TargetField(k) == template.fields[findField(template, template.mappings[k].templateFieldId)]

\* the value the claims call resolved: the profile value, "" when the key is
\* missing, folded as the transformation says
RawValue(m) ==
    IF m.profileKey \in DOMAIN profile.fields THEN profile.fields[m.profileKey]
    ELSE <<>>

Folded(v, tr) ==
    CASE tr = "uppercase" -> [i \in DOMAIN v |-> UpperOf(v[i])]
      [] tr = "lowercase" -> [i \in DOMAIN v |-> LowerOf(v[i])]
      [] OTHER -> v

ResolvedValue(k) ==
    Folded(RawValue(template.mappings[k]), template.mappings[k].transformation)

\* manual, all four geometry attributes present, on a page of the document
Paintable(k) ==
    /\ ~Stale(k)
    /\ TargetField(k).isManual
    /\ TargetField(k).x /= None /\ TargetField(k).y /= None
    /\ TargetField(k).width /= None /\ TargetField(k).height /= None
    /\ TargetField(k).pageIndex + 1 \in DOMAIN template.pdfData.pages

\* the one painter call of mapping k, with the font size and the box height
\* the claim expects
PaintedAs(k, size, height) ==
    \E i \in DOMAIN gen.calls :
        LET c == gen.calls[i].call
            f == TargetField(k) IN
        /\ CallsAt(k) = {i}
        /\ c.kind = "painter"
        /\ c.page = f.pageIndex
        /\ c.x = f.x[1]
        /\ c.y = template.pdfData.pages[f.pageIndex + 1] - f.y[1] - height + 4
        /\ c.text = ResolvedValue(k)
        /\ c.size = size
        /\ c.maxWidth = f.width

C8_ResolvedValueDispatched ==
    /\ \A i \in DOMAIN gen.calls :
        LET k == gen.calls[i].at
            c == gen.calls[i].call IN
        /\ c.text = ResolvedValue(k)
        /\ ~Stale(k)
        /\ c.kind = "form" =>
            ~TargetField(k).isManual /\ c.fieldName = TargetField(k).id
        /\ c.kind = "painter" => TargetField(k).isManual
    /\ \A k \in GenProcessed :
        (~Stale(k) /\ ~TargetField(k).isManual) => Cardinality(CallsAt(k)) = 1

\* "jD" has reached the form writer as "JD" and the painter as "jd"
C8_Witness ==
    /\ gen.pc = "done"
    /\ \E i, j \in DOMAIN gen.calls :
        /\ gen.calls[i].call.kind = "form"
        /\ template.mappings[gen.calls[i].at].transformation = "uppercase"
        /\ gen.calls[i].call.text = <<"J", "D">>
        /\ gen.calls[j].call.kind = "painter"
        /\ template.mappings[gen.calls[j].at].transformation = "lowercase"
        /\ gen.calls[j].call.text = <<"j", "d">>

\* a processed mapping that the generator dispatches: a native field, or a
\* manual field with a position on a page of the document
Dispatchable(k) ==
    /\ ~Stale(k)
    /\ \/ ~TargetField(k).isManual
       \/ /\ TargetField(k).x /= None /\ TargetField(k).y /= None
          /\ TargetField(k).pageIndex + 1 \in DOMAIN template.pdfData.pages

\* C9: a stale mapping makes no call and raises no error (generation never
\* fails at a stale mapping, only at a document that does not load or at a
\* painter call that throws), and every other processed mapping, before or
\* after it, has been dispatched.
C9_StaleMappingSkipped ==
    /\ \A k \in GenProcessed :
        /\ Stale(k) => CallsAt(k) = {} /\ ~(gen.pc = "error" /\ gen.failedAt = k)
        /\ Dispatchable(k) => Cardinality(CallsAt(k)) = 1
    /\ (gen.pc = "error" /\ gen.failedAt > 0) =>
        \E i \in CallsAt(gen.failedAt) :
            gen.calls[i].call.kind = "painter" /\ gen.calls[i].call.result = "threw"

\* generation has returned after a stale first mapping and a dispatched
\* second one
C9_Witness ==
    /\ gen.pc = "done"
    /\ Len(template.mappings) = 2
    /\ Stale(1)
    /\ CallsAt(2) /= {}

\* C10: a form writer call that fails does not end generation: the loop has
\* gone on to the next mapping, every later processed mapping has been
\* dispatched, and the failed call has set nothing.
C10_WriterFailureTolerated ==
    \A i \in DOMAIN gen.calls :
        LET k == gen.calls[i].at
            c == gen.calls[i].call IN
        (c.kind = "form" /\ c.result = "failed") =>
            /\ ~formAccepts(template.pdfData, c.fieldName)
            /\ \/ gen.pc = "loop" /\ gen.idx > k
               \/ gen.pc = "done"
               \/ gen.pc = "error" /\ gen.failedAt > k
            /\ \A later \in GenProcessed :
                (later > k /\ Dispatchable(later)) => CallsAt(later) /= {}

\* generation has returned after the checkbox refused the text of the first
\* mapping and the text field took that of the second
C10_Witness ==
    /\ gen.pc = "done"
    /\ \E i, j \in DOMAIN gen.calls :
        /\ gen.calls[i].at = 1
        /\ gen.calls[i].call.result = "failed"
        /\ gen.calls[j].at = 2
        /\ gen.calls[j].call.result = "set"

\* C11: a painter call that throws on the text of one manual field does not
\* end generation: generation never fails at the mapping of that call, so
\* the remaining mappings are processed and output bytes are returned.
C11_PainterFailureTolerated ==
    \A i \in DOMAIN gen.calls :
        (gen.calls[i].call.kind = "painter" /\ gen.calls[i].call.result = "threw")
            => ~(gen.pc = "error" /\ gen.failedAt = gen.calls[i].at)

\* C12: when the stored bytes do not load, generation makes no form writer
\* or painter call and never returns bytes, handleGenerate starts no
\* download and shows the error notice only; and no step of a generation
\* changes the persisted template, the other records or the profile.
C12_UnparseableBytesFailWhole ==
    /\ [](~template.pdfData.valid =>
            /\ gen.calls = <<>>
            /\ gen.pc \in {"idle", "error"}
            /\ gen.failedAt = 0
            /\ gen.notice \in {"none", "alert"}
            /\ gen.notice = "alert" => gen.pc = "error")
    /\ [][db' = db /\ templates' = templates /\ profile' = profile
            /\ template' = template]_vars

\* the load of the stored bytes has failed and the error notice is shown
C12_Witness ==
    /\ ~template.pdfData.valid
    /\ template.mappings /= <<>>
    /\ gen.pc = "error"
    /\ gen.notice = "alert"

(***************************************************************************)
(* Properties of the uploads.                                              *)
(***************************************************************************)
\* C13: an upload whose bytes do not parse adds no record to the table and
\* shows one alert, "Error processing PDF" when the file went to analyzePDF;
\* and no record of the table holds bytes that do not parse.
C13_FailedUploadAddsNothing ==
    /\ [](\A i \in DOMAIN templates : templates[i].pdfData.valid)
    /\ [][(lastOp'.op = "upload" /\ steps' = steps + 1
                /\ ~lastOp'.file.bytes.valid) =>
            /\ templates' = templates
            /\ Len(alerts') = Len(alerts) + 1
            /\ lastOp'.file.type = "application/pdf" =>
                    alerts'[Len(alerts')] = "Error processing PDF"]_vars

\* after an upload that added a record, an upload of a PDF file whose bytes
\* do not parse has left the table as it was and raised the error
C13_Witness ==
    /\ lastOp.op = "upload"
    /\ lastOp.file.type = "application/pdf"
    /\ ~lastOp.file.bytes.valid
    /\ Len(templates) = 1
    /\ alerts = <<"Error processing PDF">>

\* the fields analyzePDF makes of the form fields of a document
IsAnalysisOf(t, pdf) ==
    /\ t.pdfData = pdf
    /\ t.mappings = <<>>
    /\ Len(t.fields) = Len(pdf.acroFields)
    /\ \A i \in DOMAIN t.fields :
        /\ t.fields[i].id = pdf.acroFields[i].name
        /\ t.fields[i].name = pdf.acroFields[i].name
        /\ t.fields[i].type = "TEXT"
        /\ t.fields[i].isManual = FALSE
        /\ t.fields[i].pageIndex = 0
    /\ Cardinality(FieldIds(t)) = Len(pdf.acroFields)

\* C14: every record of the table, as analyzePDF made it, holds exactly one
\* field per form field of its document, with id = name = the name of the
\* form field, type TEXT, isManual false and pageIndex 0, and no mapping;
\* an upload that succeeds appends the analysis of its bytes; two records
\* made of the same bytes have the same set of field ids.
C14_AnalysisWrapsFormFields ==
    /\ \A i \in DOMAIN templates : IsAnalysisOf(templates[i], templates[i].pdfData)
    /\ \A i, j \in DOMAIN templates :
        templates[i].pdfData = templates[j].pdfData =>
            FieldIds(templates[i]) = FieldIds(templates[j])
    /\ (lastOp.op = "upload" /\ lastOp.file.type = "application/pdf"
            /\ lastOp.file.bytes.valid) =>
        /\ templates /= <<>>
        /\ IsAnalysisOf(templates[Len(templates)], lastOp.file.bytes)
        /\ templates[Len(templates)].name = withoutPdf(lastOp.file.name)

\* the document with two form fields has been uploaded twice
C14_Witness ==
    /\ Len(templates) >= 2
    /\ templates[1].pdfData = FormPdf
    /\ templates[2].pdfData = FormPdf
    /\ FieldIds(templates[2]) = {AcroText.name, AcroCheck.name}

MissingKey(k) == template.mappings[k].profileKey \notin DOMAIN profile.fields

\* C18: a mapping whose key the profile does not hold is dispatched with the
\* empty text: its call, when its field is one the generator dispatches,
\* is made exactly once and carries "", and generation never fails at it.
C18_MissingKeyResolvesToEmpty ==
    /\ \A i \in DOMAIN gen.calls :
        MissingKey(gen.calls[i].at) =>
            /\ gen.calls[i].call.text = <<>>
            /\ gen.calls[i].call.result /= "threw"
    /\ \A k \in GenProcessed :
        MissingKey(k) =>
            /\ ~(gen.pc = "error" /\ gen.failedAt = k)
            /\ Dispatchable(k) => Cardinality(CallsAt(k)) = 1

\* generation has returned after handing "" to the form writer and to the
\* painter for two mappings of the key "Date", which the profile does not hold
C18_Witness ==
    /\ gen.pc = "done"
    /\ Len(template.mappings) = 2
    /\ MissingKey(1) /\ MissingKey(2)
    /\ \E i, j \in DOMAIN gen.calls :
        /\ gen.calls[i].call.kind = "form"
        /\ gen.calls[i].call.text = <<>>
        /\ gen.calls[i].call.result = "set"
        /\ gen.calls[j].call.kind = "painter"
        /\ gen.calls[j].call.text = <<>>
        /\ gen.calls[j].call.result = "drawn"

\* C21: the calls of a generation are determined by the template and the
\* profile, whatever the zoom factor of the editor: the calls are made in the
\* order of the mappings, one for each mapping the generator dispatches
\* and none for the others, and the arguments of each are the id of the
\* field and the resolved value, or the page, the stored x, the flipped y,
\* the resolved value, the font size and the stored width.
C21_CallsIndependentOfZoom ==
    /\ \A i, j \in DOMAIN gen.calls : i < j => gen.calls[i].at < gen.calls[j].at
    /\ \A k \in GenProcessed : Dispatchable(k) <=> CallsAt(k) /= {}
    /\ \A i \in DOMAIN gen.calls :
        LET k == gen.calls[i].at
            c == gen.calls[i].call
            f == TargetField(k) IN
        /\ c.text = ResolvedValue(k)
        /\ IF c.kind = "form"
           THEN ~f.isManual /\ c.fieldName = f.id
           ELSE /\ f.isManual
                /\ c.page = f.pageIndex
                /\ c.x = f.x[1]
                /\ c.y = template.pdfData.pages[f.pageIndex + 1] - f.y[1]
                            - (IF f.height = <<>> \/ f.height = <<0>> THEN 20
                               ELSE f.height[1]) + 4
                /\ c.size = (IF f.fontSize = <<>> \/ f.fontSize = <<0>> THEN 12
                             ELSE f.fontSize[1])
                /\ c.maxWidth = f.width

\* at zoom 2 the box stored at (50, 50) has been handed to the painter at
\* x = 50 and y = 800 - 50 - 30 + 4, after a form writer call
C21_Witness ==
    /\ scale = [n |-> 2, d |-> 1]
    /\ gen.pc = "done"
    /\ Len(gen.calls) = 2
    /\ gen.calls[1].call.kind = "form"
    /\ gen.calls[2].call.kind = "painter"
    /\ gen.calls[2].call.x = 50
    /\ gen.calls[2].call.y = 724

OffPage(k) ==
    /\ ~Stale(k)
    /\ TargetField(k).isManual
    /\ TargetField(k).pageIndex + 1 \notin DOMAIN template.pdfData.pages

\* C25: a mapped manual field whose pageIndex is not a page of the document
\* causes no painter call and no failure of the generation, and the mappings
\* after it are processed as they are without it: each one that the
\* generator dispatches has its call.
C25_OffPageFieldSkipped ==
    \A k \in GenProcessed :
        OffPage(k) =>
            /\ CallsAt(k) = {}
            /\ ~(gen.pc = "error" /\ gen.failedAt = k)
            /\ gen.pc = "loop" => gen.idx > k
            /\ \A j \in GenProcessed :
                    (j > k /\ Dispatchable(j)) => CallsAt(j) /= {}

\* the first of two mappings targets a box on page 6 of a one-page document;
\* generation finished, with no call for it and a call for the second
C25_Witness ==
    /\ gen.pc = "done"
    /\ Len(template.mappings) = 2
    /\ OffPage(1)
    /\ CallsAt(1) = {}
    /\ CallsAt(2) /= {}

(***************************************************************************)
(* Properties of the asynchronous page render.                             *)
(***************************************************************************)
\* C30 as stated: once no render is in flight, the page on the canvas is
\* currentPage and the zoom factor of the overlay is the scale the canvas
\* was drawn with.
C30_LastSelectedPageDrawn ==
    renders = {} => (canvas.page = currentPage /\ canvas.scale = scale)

(***************************************************************************)
(* Properties of the coordinate arithmetic.                                *)
(***************************************************************************)
\* C23 as stated: multiplying a point by the zoom factor and dividing the
\* product by the zoom factor yields the point.
C23_RoundTripExact ==
    calc.pc = "back" => calc.back = calc.p

\* C23: multiplying a point p by the zoom factor and dividing the product by
\* the zoom factor yields a number whose distance to p is at most
\* p * 2 ^ (1 - SignificandBits); and a pointer-move with a zero pointer
\* delta hands updateField the x the box had, exactly.
C23_RoundTripWithinTolerance ==
    /\ calc.pc = "back" =>
        LET diff == calc.back.n * calc.p.d - calc.p.n * calc.back.d
            dist == IF diff < 0 THEN 0 - diff ELSE diff IN
        dist * 2 ^ (SignificandBits - 1) <= calc.p.n * calc.back.d
    /\ (calc.pc = "dragged" /\ calc.delta.n = 0) => calc.x = calc.p

\* 7 * 0.75 is rounded to 5, 5 / 0.75 to 6.5
C23_Witness ==
    /\ calc.pc = "back"
    /\ calc.p = [n |-> 7, d |-> 1]
    /\ calc.s = [n |-> 3, d |-> 4]
    /\ calc.back /= calc.p

====
